---- MODULE Spec2Model ----
(***************************************************************************)
(* Model of normal_mode_analysis/mean_nuc_mesh_from_data.py: the threaded  *)
(* z-plane rasterizer get_binary_mask_from_mesh, the aggregator            *)
(* get_mean_mask and the pipeline get_mean_mesh_from_individual_meshes.    *)
(* Python threads may be switched between any two bytecodes, so every      *)
(* iteration of the loops inside ProcessThisPlane is a step of its own.    *)
(***************************************************************************)
EXTENDS Integers, Sequences, FiniteSets, TLC

\* ---- bounds of the model ----
MaxN == 2                  \* largest dataset size df.shape[0]
NZ == 2                    \* imsize[2], the number of z-planes
ImSizeXY == <<2, 1>>       \* imsize[0], imsize[1]
DzValues == {2}            \* physical z spacings of the dataset

\* ---- program constants ----
n_jobs == 2                \* Parallel(n_jobs=2, backend="threading")
Marker == 255              \* mask[z,y,x] = 255*vert_is_inside
Uint8 == 256               \* dtype=np.uint8

imsize == <<ImSizeXY[1], ImSizeXY[2], NZ>>
nx == imsize[1]
ny == imsize[2]
nz == imsize[3]
n_verts == nx * ny

Verts == 0 .. (n_verts - 1)
Planes == 0 .. (nz - 1)
Workers == 1 .. n_jobs
\* elements of the volume, indexed [z, y, x] as np.zeros((nz,ny,nx))
Voxels == Planes \X (0 .. (ny - 1)) \X (0 .. (nx - 1))

\* yy, xx = np.meshgrid(np.arange(ny), np.arange(nx)); flattened row-major
x(k) == k \div ny
y(k) == k % ny

\* A closed surface is modelled by the lattice points <<x, y, z>> it encloses:
\* the axis-aligned box [0, xhi] x [0, ny) x [0, zhi].
Box(xhi, zhi) ==
  {p \in (0 .. (nx - 1)) \X (0 .. (ny - 1)) \X Planes : p[1] <= xhi /\ p[3] <= zhi}

Surfaces == {Box(nx - 1, nz - 1), Box(0, 0)}

\* vtkSelectEnclosedPoints: 1 when the query point is enclosed by the surface
IsInside(surface, p) == IF p \in surface THEN 1 ELSE 0

None == <<>>
Zeros == [v \in Voxels |-> 0]
ZeroVerts == [k \in Verts |-> 0]
Idle == [st |-> "idle", z |-> 0, k |-> 0, enc |-> ZeroVerts]

VARIABLES
  df,              \* dataset rows 0..N-1: [surface, readable]
  dz,              \* physical z spacing of the dataset
  pc,              \* position of the main thread
  i,               \* loop index of get_mean_mask
  sum_mask,        \* running sum (np.uint8 array)
  mean_mask,       \* result of np.divide: voxel -> <<numerator, denominator>>
  saved,           \* contents of nucleus_mesh_data/mean_nuc_mask.npy
  polydata,        \* surface being rasterized
  mask,            \* output volume of the running get_binary_mask_from_mesh
  xypts,           \* shared vtkPoints query buffer
  vert_is_inside,  \* shared classification buffer
  nextZ,           \* next z the task generator will hand out
  workers,         \* the n_jobs pool threads
  verts,           \* vertices produced by get_mean_mesh
  out,             \* value returned by get_mean_mesh_from_individual_meshes
  writes,          \* history: number of tasks that wrote each plane
  rast,            \* history: rasterizations per dataset entry
  contrib,         \* history: times each entry went into the running sum
  vol,             \* history: the volumes returned for each entry, in order
  exact            \* history: arithmetic sum of everything put into sum_mask

vars == <<df, dz, pc, i, sum_mask, mean_mask, saved, polydata, mask, xypts,
          vert_is_inside, nextZ, workers, verts, out, writes, rast, contrib,
          vol, exact>>

rasterVars == <<polydata, mask, xypts, vert_is_inside, nextZ, workers, writes>>
aggVars == <<i, sum_mask, mean_mask, saved, contrib, vol, exact>>
meshVars == <<verts, out>>

N == Cardinality(DOMAIN df)
Rows == 0 .. (N - 1)

Init ==
  /\ \E n \in 1 .. MaxN :
       df \in [0 .. (n - 1) -> [surface : Surfaces, readable : BOOLEAN]]
  /\ dz \in DzValues
  /\ pc = "start"
  /\ i = 0
  /\ sum_mask = None
  /\ mean_mask = None
  /\ saved = None
  /\ polydata = {}
  /\ mask = Zeros
  /\ xypts = [k \in Verts |-> <<x(k), y(k), 0>>]
  /\ vert_is_inside = ZeroVerts
  /\ nextZ = 0
  /\ workers = [w \in Workers |-> Idle]
  /\ verts = {}
  /\ out = None
  /\ writes = [z \in Planes |-> 0]
  /\ rast = [r \in DOMAIN df |-> 0]
  /\ contrib = [r \in DOMAIN df |-> 0]
  /\ vol = [r \in DOMAIN df |-> <<>>]
  /\ exact = Zeros

\* ---- get_binary_mask_from_mesh ----

\* lines 58-73: fresh mask, buffers and query points for one call
EnterRasterizer(r) ==
  /\ polydata' = df[r].surface
  /\ mask' = Zeros
  /\ vert_is_inside' = ZeroVerts
  /\ xypts' = [k \in Verts |-> <<x(k), y(k), 0>>]
  /\ nextZ' = 0
  /\ workers' = [w \in Workers |-> Idle]
  /\ writes' = [z \in Planes |-> 0]
  /\ rast' = [rast EXCEPT ![r] = @ + 1]

InRasterizer == pc \in {"seed_raster", "loop_raster"}

\* a pool thread takes the next delayed(ProcessThisPlane)(mask, z)
Dispatch(w) ==
  /\ InRasterizer
  /\ workers[w].st = "idle"
  /\ nextZ < nz
  /\ workers' = [workers EXCEPT ![w] = [st |-> "set", z |-> nextZ, k |-> 0,
                                         enc |-> ZeroVerts]]
  /\ nextZ' = nextZ + 1
  /\ UNCHANGED <<df, dz, pc, polydata, mask, xypts, vert_is_inside, writes, rast>>
  /\ UNCHANGED aggVars
  /\ UNCHANGED meshVars

\* one iteration of: for i in range(n_verts): xypts.SetPoint(i,[x[i],y[i],z])
SetPoint(w) ==
  LET me == workers[w] IN
  /\ me.st = "set"
  /\ xypts' = [xypts EXCEPT ![me.k] = <<x(me.k), y(me.k), me.z>>]
  /\ workers' = [workers EXCEPT ![w] =
                   IF me.k + 1 = n_verts
                   THEN [me EXCEPT !.st = "update", !.k = 0]
                   ELSE [me EXCEPT !.k = me.k + 1]]
  /\ UNCHANGED <<df, dz, pc, polydata, mask, vert_is_inside, nextZ, writes, rast>>
  /\ UNCHANGED aggVars
  /\ UNCHANGED meshVars

\* plane.SetPoints(xypts) shares the buffer; encPoints.Update() classifies
\* whatever the buffer holds when it runs
Update(w) ==
  LET me == workers[w] IN
  /\ me.st = "update"
  /\ workers' = [workers EXCEPT ![w] =
                   [me EXCEPT !.st = "read", !.k = 0,
                              !.enc = [k \in Verts |-> IsInside(polydata, xypts[k])]]]
  /\ UNCHANGED <<df, dz, pc, polydata, mask, xypts, vert_is_inside, nextZ, writes, rast>>
  /\ UNCHANGED aggVars
  /\ UNCHANGED meshVars

\* one iteration of: for i in range(n_verts): vert_is_inside[i] = encPoints.IsInside(i)
ReadInside(w) ==
  LET me == workers[w] IN
  /\ me.st = "read"
  /\ vert_is_inside' = [vert_is_inside EXCEPT ![me.k] = me.enc[me.k]]
  /\ workers' = [workers EXCEPT ![w] =
                   IF me.k + 1 = n_verts
                   THEN [me EXCEPT !.st = "write", !.k = 0]
                   ELSE [me EXCEPT !.k = me.k + 1]]
  /\ UNCHANGED <<df, dz, pc, polydata, mask, xypts, nextZ, writes, rast>>
  /\ UNCHANGED aggVars
  /\ UNCHANGED meshVars

WrittenVoxelsAllPlanes(z) == Voxels

\* the elements addressed by mask[z,y,x] with x, y the flattened meshgrid
WrittenVoxels(z) == {v \in Voxels : v[1] = z}

\* index into the flattened meshgrid of the grid point (x, y)
VertIndex(xv, yv) == xv * ny + yv

\* mask[z,y,x] = 255*vert_is_inside
WritePlane(w) ==
  LET me == workers[w] IN
  /\ me.st = "write"
  /\ mask' = [v \in Voxels |->
                IF v \in WrittenVoxels(me.z)
                THEN (Marker * vert_is_inside[VertIndex(v[3], v[2])]) % Uint8
                ELSE mask[v]]
  /\ writes' = [writes EXCEPT ![me.z] = @ + 1]
  /\ workers' = [workers EXCEPT ![w] = Idle]
  /\ UNCHANGED <<df, dz, pc, polydata, xypts, vert_is_inside, nextZ, rast>>
  /\ UNCHANGED aggVars
  /\ UNCHANGED meshVars

AllTasksDispatched == nextZ = nz

\* Parallel(...)(...) returns once the generator is exhausted and every
\* dispatched task has finished
AllTasksComplete == nextZ = nz /\ \A w \in Workers : workers[w].st = "idle"

\* the locals of get_binary_mask_from_mesh die when it returns
LeaveRasterizer ==
  /\ polydata' = {}
  /\ mask' = Zeros
  /\ vert_is_inside' = ZeroVerts
  /\ xypts' = [k \in Verts |-> <<x(k), y(k), 0>>]
  /\ nextZ' = 0
  /\ workers' = [w \in Workers |-> Idle]
  /\ UNCHANGED <<writes, rast>>

\* ---- get_mean_mask ----

\* np.add on two np.uint8 arrays: element-wise, result dtype np.uint8
np_add(a, b) == [v \in Voxels |-> (a[v] + b[v]) % Uint8]

\* np.divide(sum_mask, n): true division, kept as numerator and denominator
np_divide(a, n) == [v \in Voxels |-> <<a[v], n>>]

\* line 162 with a row whose mesh cannot be read: the exception propagates
SeedLoadRaises ==
  /\ pc = "start"
  /\ ~df[0].readable
  /\ pc' = "raised"
  /\ UNCHANGED <<df, dz, rast>>
  /\ UNCHANGED rasterVars
  /\ UNCHANGED aggVars
  /\ UNCHANGED meshVars

\* lines 162, 164: polydata = get_mesh_polydata(df, 0); enter the rasterizer
SeedLoad ==
  /\ pc = "start"
  /\ df[0].readable
  /\ EnterRasterizer(0)
  /\ pc' = "seed_raster"
  /\ UNCHANGED <<df, dz>>
  /\ UNCHANGED aggVars
  /\ UNCHANGED meshVars

\* line 164: sum_mask = get_binary_mask_from_mesh(polydata, imsize)
SeedReturn ==
  /\ pc = "seed_raster"
  /\ AllTasksComplete
  /\ sum_mask' = mask
  /\ contrib' = [contrib EXCEPT ![0] = @ + 1]
  /\ vol' = [vol EXCEPT ![0] = Append(@, mask)]
  /\ exact' = mask
  /\ LeaveRasterizer
  /\ i' = 0
  /\ pc' = "loop"
  /\ UNCHANGED <<df, dz, mean_mask, saved>>
  /\ UNCHANGED meshVars

RangeEndShort == N - 1

\* for i in range(df.shape[0])
RangeEnd == N

\* line 167 with a row whose mesh cannot be read: the exception propagates
LoopLoadRaises ==
  /\ pc = "loop"
  /\ i < RangeEnd
  /\ ~df[i].readable
  /\ pc' = "raised"
  /\ UNCHANGED <<df, dz, rast>>
  /\ UNCHANGED rasterVars
  /\ UNCHANGED aggVars
  /\ UNCHANGED meshVars

\* lines 166, 167, 169: next row, load it and enter the rasterizer
LoopLoad ==
  /\ pc = "loop"
  /\ i < RangeEnd
  /\ df[i].readable
  /\ EnterRasterizer(i)
  /\ pc' = "loop_raster"
  /\ UNCHANGED <<df, dz>>
  /\ UNCHANGED aggVars
  /\ UNCHANGED meshVars

\* line 169: sum_mask = np.add(sum_mask, get_binary_mask_from_mesh(...))
LoopAdd ==
  /\ pc = "loop_raster"
  /\ AllTasksComplete
  /\ sum_mask' = np_add(sum_mask, mask)
  /\ contrib' = [contrib EXCEPT ![i] = @ + 1]
  /\ vol' = [vol EXCEPT ![i] = Append(@, mask)]
  /\ exact' = [v \in Voxels |-> exact[v] + mask[v]]
  /\ LeaveRasterizer
  /\ i' = i + 1
  /\ pc' = "loop"
  /\ UNCHANGED <<df, dz, mean_mask, saved>>
  /\ UNCHANGED meshVars

\* line 171: mean_mask = np.divide(sum_mask, df.shape[0])
Divide ==
  /\ pc = "loop"
  /\ i >= RangeEnd
  /\ mean_mask' = np_divide(sum_mask, N)
  /\ pc' = "save"
  /\ UNCHANGED <<df, dz, i, sum_mask, saved, contrib, vol, exact, rast>>
  /\ UNCHANGED rasterVars
  /\ UNCHANGED meshVars

\* lines 173-174: np.save(...); return mean_mask
Save ==
  /\ pc = "save"
  /\ saved' = mean_mask
  /\ pc' = "mean_mesh"
  /\ UNCHANGED <<df, dz, i, sum_mask, mean_mask, contrib, vol, exact, rast>>
  /\ UNCHANGED rasterVars
  /\ UNCHANGED meshVars

\* ---- surface reconstruction ----

\* np.round of the quotient p / q: to nearest, ties to even
np_round(p, q) ==
  LET f == p \div q
      r == p % q
  IN IF 2 * r < q THEN f
     ELSE IF 2 * r > q THEN f + 1
     ELSE IF f % 2 = 0 THEN f ELSE f + 1

\* fix_z: nz = np.round(imsize/dz); dz = imsize/nz; vert[2] *= dz.
\* A coordinate is a pair <<numerator, denominator>>.
fix_z(vs, d, size) ==
  LET levels == np_round(size, d)
  IN {<<v[1], v[2], <<v[3][1] * size, v[3][2] * levels>>>> : v \in vs}

\* measure.marching_cubes_lewiner, a library routine: a vertex at the index
\* coordinates (axis 0, axis 1, axis 2) of every occupied voxel
marching_cubes(m) ==
  {<<<<v[1], 1>>, <<v[2], 1>>, <<v[3], 1>>>> : v \in {u \in Voxels : m[u][1] > 0}}

\* line 211, lines 192-199: verts, faces = get_mean_mesh(mask, imsize)
GetMeanMesh ==
  /\ pc = "mean_mesh"
  /\ verts' = marching_cubes(mean_mask)
  /\ pc' = "return"
  /\ UNCHANGED <<df, dz, out, rast>>
  /\ UNCHANGED rasterVars
  /\ UNCHANGED aggVars

\* line 211: the library rejects step_size=imsize when imsize is a sequence
GetMeanMeshRaises ==
  /\ pc = "mean_mesh"
  /\ pc' = "raised"
  /\ UNCHANGED <<df, dz, rast>>
  /\ UNCHANGED rasterVars
  /\ UNCHANGED aggVars
  /\ UNCHANGED meshVars

\* line 212: return verts, faces, mask
Return ==
  /\ pc = "return"
  /\ out' = [verts |-> verts, mask |-> mean_mask]
  /\ pc' = "done"
  /\ UNCHANGED <<df, dz, verts, rast>>
  /\ UNCHANGED rasterVars
  /\ UNCHANGED aggVars

Next ==
  \/ SeedLoadRaises
  \/ SeedLoad
  \/ \E w \in Workers : Dispatch(w)
  \/ \E w \in Workers : SetPoint(w)
  \/ \E w \in Workers : Update(w)
  \/ \E w \in Workers : ReadInside(w)
  \/ \E w \in Workers : WritePlane(w)
  \/ SeedReturn
  \/ LoopLoadRaises
  \/ LoopLoad
  \/ LoopAdd
  \/ Divide
  \/ Save
  \/ GetMeanMesh
  \/ GetMeanMeshRaises
  \/ Return

Spec == Init /\ [][Next]_vars

TypeOK ==
  /\ pc \in {"start", "seed_raster", "loop", "loop_raster", "save", "mean_mesh",
             "return", "done", "raised"}
  /\ nextZ \in 0 .. nz
  /\ \A v \in Voxels : mask[v] \in 0 .. (Uint8 - 1)

\* ---- properties ----

RECURSIVE SumOfVolumes(_, _)
\* arithmetic sum at voxel v of the last volume of the entries 0 .. n-1
SumOfVolumes(v, n) ==
  IF n = 0 THEN 0 ELSE vol[n - 1][Len(vol[n - 1])][v] + SumOfVolumes(v, n - 1)

\* C1: when the division is performed every entry was rasterized at most
\* once and went into the running sum exactly once, and the accumulator is
\* the sum of the N volumes.
C1_EachEntryExactlyOnce ==
  pc = "save" =>
    /\ \A r \in Rows : rast[r] <= 1 /\ contrib[r] = 1
    /\ \A v \in Voxels : sum_mask[v] = SumOfVolumes(v, N)

RECURSIVE SingleWorkerPlanes(_, _, _)
\* the planes z, z+1, ... processed one after another by a pool of width 1
SingleWorkerPlanes(surface, m, z) ==
  IF z = nz THEN m
  ELSE SingleWorkerPlanes(
         surface,
         [v \in Voxels |->
            IF v[1] = z THEN Marker * IsInside(surface, <<v[3], v[2], z>>) ELSE m[v]],
         z + 1)

\* C2: whatever the interleaving of the two workers, the mask that
\* get_binary_mask_from_mesh returns is the mask a single worker produces.
C2_SameMaskAsSingleWorker ==
  (InRasterizer /\ AllTasksComplete) => mask = SingleWorkerPlanes(polydata, Zeros, 0)

IsOne(q) == q[1] = q[2]
IsZero(q) == q[1] = 0

\* C3: when every rasterization of every entry returned the same volume V,
\* the mean is 1.0 where V is inside and 0.0 where V is outside.
C3_MeanOfIdenticalVolumes ==
  (pc = "save" /\ \A r \in Rows : \A k \in 1 .. Len(vol[r]) : vol[r][k] = vol[0][1]) =>
    \A v \in Voxels :
      IF vol[0][1][v] = Marker THEN IsOne(mean_mask[v]) ELSE IsZero(mean_mask[v])

RECURSIVE SumOfContrib(_)
SumOfContrib(n) == IF n = 0 THEN 0 ELSE contrib[n - 1] + SumOfContrib(n - 1)

\* C4: an entry that fails to load does not end the run, and the divisor of
\* the mean is the number of volumes that went into the sum.
C4_FailureIsolated ==
  /\ ~(pc = "raised" /\ mean_mask = None)
  /\ pc = "save" => \A v \in Voxels : mean_mask[v][2] = SumOfContrib(N)

RatEq(a, b) == a[1] * b[2] = b[1] * a[2]
VertEq(u, v) == \A c \in 1 .. 3 : RatEq(u[c], v[c])
SameVerts(a, b) ==
  /\ \A u \in a : \E v \in b : VertEq(u, v)
  /\ \A v \in b : \E u \in a : VertEq(u, v)

\* C5: the vertices the pipeline returns are the isosurface vertices with
\* their z-coordinate multiplied by imsize_z / round(imsize_z / dz).
C5_RescaledBeforeReturn ==
  pc = "done" => SameVerts(out.verts, fix_z(marching_cubes(out.mask), dz, nz))

\* C6: a mask goes into the running sum only when every plane of it has
\* been written and no ProcessThisPlane task is running or waiting.
C6_AddAfterAllPlanes ==
  [][(contrib' # contrib) =>
       /\ \A z \in Planes : writes[z] >= 1
       /\ \A w \in Workers : workers[w].st = "idle"]_vars

C6_Witness ==
  /\ pc = "loop"
  /\ i >= 1
  /\ contrib[0] = 2
  /\ \A z \in Planes : writes[z] = 1

\* C7: a mean exists, in memory or on disk, only when every one of the N
\* entries has gone into the running sum.
C7_MeanAfterAllEntries ==
  (mean_mask # None \/ saved # None \/ out # None) =>
    /\ \A r \in Rows : contrib[r] >= 1
    /\ i = N

C7_Witness ==
  /\ saved # None
  /\ N >= 2
  /\ \A r \in Rows : contrib[r] >= 1

\* C8: when get_binary_mask_from_mesh returns, mask[z,y,x] is 255 exactly
\* when (x, y, z) is inside the surface, and 0 otherwise.
C8_PlaneClassifiedAtOwnZ ==
  (InRasterizer /\ AllTasksComplete) =>
    \A v \in Voxels :
      /\ mask[v] = Marker <=> <<v[3], v[2], v[1]>> \in polydata
      /\ mask[v] # Marker => mask[v] = 0

\* C9: a ProcessThisPlane(mask, z) task changes only mask[z, :, :], every
\* plane is written by exactly one task per call, and two running tasks
\* never hold the same z.
C9_DisjointPlaneWrites ==
  /\ [](\A z \in Planes : writes[z] <= 1)
  /\ []((InRasterizer /\ AllTasksComplete) => \A z \in Planes : writes[z] = 1)
  /\ [](\A w1, w2 \in Workers :
          (w1 # w2 /\ workers[w1].st # "idle" /\ workers[w2].st # "idle")
            => workers[w1].z # workers[w2].z)
  /\ [][\A w \in Workers :
          (workers[w].st = "write" /\ workers'[w].st = "idle" /\ pc' = pc) =>
            \A v \in Voxels : v[1] # workers[w].z => mask'[v] = mask[v]]_vars

C9_Witness ==
  /\ InRasterizer
  /\ AllTasksComplete
  /\ \A z \in Planes : writes[z] = 1
  /\ \E v \in Voxels : mask[v] = Marker

\* C10: after every addition each element of the running sum is the
\* arithmetic sum of the markers put into it.
C10_SumNeverWraps ==
  contrib[0] >= 1 => \A v \in Voxels : sum_mask[v] = exact[v]
====
